---- MODULE Spec2Model ----
(***************************************************************************)
(* Transfer pipeline of ownables-cli (src/lib/commands/transfer.js,        *)
(* lines 1-444): locate the archive, parse it, prompt for the              *)
(* configuration, check the balance, then for every requested transfer     *)
(* build the chain, compute the package CID, append an event, anchor,      *)
(* put chain.json into the zip and send the package to the relay.          *)
(*                                                                         *)
(* One action per await point of transfer(): the synchronous code between  *)
(* two awaits runs atomically in Node's single thread.                     *)
(*                                                                         *)
(* Numbers: a JavaScript number is [nan, v].  Transfer counts carry v in   *)
(* HALVES (v = 3 is 1.5) so that the non-integer counts the number prompt  *)
(* can return are representable; balances and required balances carry v    *)
(* in QUARTERS of one LTO (LTO_FEE = 0.5 LTO = 2 quarters), which makes    *)
(* transferCount * LTO_FEE an integer number of quarters for every count   *)
(* in halves.                                                              *)
(***************************************************************************)
EXTENDS Integers, Sequences, FiniteSets, TLC

\* ---------------------------------------------------------------- bounds
MaxZips == 2          \* .zip files in the working directory: 0..MaxZips
MaxExisting == 2      \* events of a chain.json found in the archive: 0..MaxExisting
MaxSmallCount == 3    \* small transfer counts offered to the prompt, in halves up to 2*MaxSmallCount+1
MaxBuilds == 3       \* build() runs on the same project
MaxEntries == 3      \* entries of a package handed to a CID function
MaxBalance == 4       \* balances returned by the node: 0..MaxBalance quarters of LTO, and one ample balance

\* ----------------------------------------------------- program constants
LTO_FEE == 2          \* constants.js: LTO_FEE = 0.5 LTO, in quarters of LTO
MAX_TRANSFERS == 50   \* transfer.js: "Maximum number of transfers is 50"
THUMBNAIL_LIMIT == 262144  \* transfer.js: 256 * 1024 bytes

\* ------------------------------------------------------ JavaScript numbers
Num(x) == [nan |-> FALSE, v |-> x]
NaN == [nan |-> TRUE, v |-> 0]
\* a < b in JavaScript: false as soon as one side is NaN
Lt(a, b) == ~a.nan /\ ~b.nan /\ a.v < b.v

\* parseInt of a number given in halves: the integer part, truncated
\* towards zero (parseInt reads the digits before the decimal point)
ParseInt(c) ==
  IF c.nan THEN NaN
  ELSE IF c.v >= 0 THEN Num(c.v \div 2) ELSE Num(-((-c.v) \div 2))

\* ------------------------------------------------------------ event chains
\* A chain.json entry / a chain object: kind "absent" | "malformed" | "chain".
NoChain == [kind |-> "absent", id |-> 0, events |-> <<>>]
Malformed == [kind |-> "malformed", id |-> 0, events |-> <<>>]
Archived(h) == [hash |-> h, context |-> "archived"]
\* a well-formed chain.json with k events (hashes 1..k) of chain id 0
ParsedChain(k) == [kind |-> "chain", id |-> 0, events |-> [j \in 1..k |-> Archived(j)]]

ArchiveChains == {NoChain, Malformed} \cup {ParsedChain(k) : k \in 0..MaxExisting}
Manifests == {"package.json", "Package.json", "missing"}

\* The parsed package.json: a missing name or description reads as "", a
\* missing keywords as <<>>.
DemoPkg == [name |-> "demo", description |-> "a demo ownable", keywords |-> <<"demo">>]
BarePkg == [name |-> "", description |-> "", keywords |-> <<>>]
PkgJsons == {DemoPkg, BarePkg}

\* The entries of the zip besides package.json, chain.json and
\* thumbnail.webp: name -> bytes (an opaque number).
BaseFiles == [n \in {"ownable_bg.wasm", "index.html"} |-> IF n = "index.html" THEN 1 ELSE 2]
\* the thumbnail.webp entry: "absent" | "present" | "unreadable" (its
\* bytes cannot be inflated)
Thumbs == {"absent", "present", "unreadable"}

\* one sharp(...).webp({quality}).resize(50, 50).toBuffer() call: it
\* rejects, or resolves with a buffer of some length
EncodeFailed == [ok |-> FALSE, size |-> 0]
Encoded(n) == [ok |-> TRUE, size |-> n]
EncodeResults == {EncodeFailed} \cup {Encoded(n) : n \in {1, THUMBNAIL_LIMIT, THUMBNAIL_LIMIT + 1}}
\* a thumbnail: null, or the Binary of a buffer of that length
NoThumbnail == [ok |-> FALSE, size |-> 0]

VARIABLES
  pc,            \* position of transfer()
  outcome,       \* "running" | "resolved" (returned normally) | "rejected" (threw)
  error,         \* message of the error transfer() rejected with
  abortedIn,     \* pc at which the run threw, "none" otherwise
  zips,          \* number of .zip files in the working directory
  zipKind,       \* what the first .zip path is: "file" | "dir"
  fsChanged,     \* the directory was changed by another process during the run
  archive,       \* the zip on disk: [manifest, manifestValid, chain]
  archiveFromA,  \* the archive is the package delivered by a Scenario A run
  existingChain, \* extractMetadata's existingChain (kind "absent" is null)
  zipChain,      \* the chain.json entry of the in-memory zip object
  zipFiles,      \* the other entries of the in-memory zip object: name -> bytes
  metadata,      \* extractMetadata's title, description and keywords
  thumbnail,     \* extractMetadata's thumbnail
  encoded,       \* the results of the encoder calls extractMetadata made
  relay,         \* prompt answer
  transferCount, \* prompt answer, in halves
  promptError,   \* last message shown by the transferCount validator
  balanceQueries,\* number of balance requests sent to the node
  balance,       \* checkBalance's result, in quarters of LTO
  insufficient,  \* "Insufficient balance" was reported
  i,             \* loop variable of transfer()
  chain,         \* createEventAndChainJson's chain
  anchors,       \* createEventAndChainJson's anchors (event hashes)
  chainJson,     \* createEventAndChainJson's returned chainJson
  nextHash,      \* source of fresh event hashes
  nextId,        \* source of fresh chain ids
  cidCalls,      \* calculatePackageCID calls made: [iter, events, addedTo]
  appended,      \* events added in this run: [iter, hash, chainId, context]
  anchorCalls,   \* lto.anchor calls: [iter, anchors, chain, ok]
  anchorTxs,     \* iterations whose anchor transaction was returned and reported
  repackaged,    \* iterations in which chain.json was put into the zip
  sendCalls,     \* relayClient.send calls: [iter, chain, files, thumbnail, ok]
  completed,     \* iterations reported "Transfer i completed"
  allDone        \* "All N transfer(s) completed successfully" was reported

VARIABLES
  \* one call of a CID function (calculateZipCID, calculateDirectoryCID,
  \* calculatePackageCID) on a package
  cidFn,           \* the function called: "zip" | "dir" | "package" ("none": no call)
  cidInput,        \* the entries of the zip or directory, in iteration order
  excludePatterns, \* the exclude patterns in force
  cidPc,           \* position in the call
  cidFiles,        \* the files collected for the importer (the new zip's entries)
  importerCalls,   \* importer / ipfs.add calls: [config, files, outcome]
  directoryCid     \* the result: [kind |-> "none" | "cid" | "error", text]

VARIABLES
  \* build() runs on one project directory
  bPc,           \* position in build() ("idle": not started, "done": finished)
  bOutcome,      \* "none" | "running" | "resolved" | "rejected"
  bError,        \* message of the error build() rejected with
  bSteps,        \* what this run did so far, in order
  builds,        \* build() runs started
  prerequisites, \* "ok", or the tool that is missing
  project,       \* [cargoToml, layout, images]: the project directory
  schemaDir,     \* build/schema: [exists, files, valid]
  tmpDirs,       \* temporary directories that exist
  zipWritten     \* a package zip was written

run == <<pc, outcome, error, abortedIn>>
disk == <<zips, zipKind, fsChanged, archive, archiveFromA>>
parsed == <<existingChain, zipChain, zipFiles, metadata, thumbnail, encoded>>
config == <<relay, transferCount, promptError>>
funds == <<balanceQueries, balance, insufficient>>
iter == <<i, chain, anchors, chainJson, nextHash, nextId>>
logs == <<cidCalls, appended, anchorCalls, anchorTxs, repackaged, sendCalls, completed, allDone>>
cidVars == <<cidFn, cidInput, excludePatterns, cidPc, cidFiles, importerCalls, directoryCid>>
buildVars == <<bPc, bOutcome, bError, bSteps, builds, prerequisites, project,
               schemaDir, tmpDirs, zipWritten>>
transferVars == <<run, disk, parsed, config, funds, iter, logs>>
vars == <<run, disk, parsed, config, funds, iter, logs, cidVars, buildVars>>

REQUIRED_SCHEMA_FILES ==
  {"instantiate_msg.json", "metadata.json", "info_response.json",
   "query_msg.json", "execute_msg.json"}
NoSchemaDir == [exists |-> FALSE, files |-> {}, valid |-> TRUE]
\* a project with its Cargo.toml, directories and an image; build() not called
CompleteProject == [cargoToml |-> "original", layout |-> "ok", images |-> 1]
BuildIdle ==
  /\ bPc = "idle" /\ bOutcome = "none" /\ bError = "none" /\ bSteps = <<>> /\ builds = 0
  /\ prerequisites = "ok" /\ project = CompleteProject
  /\ schemaDir = NoSchemaDir /\ tmpDirs = 0 /\ zipWritten = FALSE

NoCid == [kind |-> "none", text |-> ""]
\* no CID function is being called
CidIdle ==
  /\ cidFn = "none" /\ cidInput = <<>> /\ excludePatterns = {} /\ cidPc = "idle"
  /\ cidFiles = <<>> /\ importerCalls = <<>> /\ directoryCid = NoCid

\* The state of a run that has not started, on a given directory.
Fresh(z, k, a, fromA) ==
  /\ pc = "locate" /\ outcome = "running" /\ error = "none" /\ abortedIn = "none"
  /\ zips = z /\ zipKind = k /\ fsChanged = FALSE /\ archive = a /\ archiveFromA = fromA
  /\ existingChain = NoChain /\ zipChain = NoChain
  /\ zipFiles = <<>> /\ metadata = BarePkg /\ thumbnail = NoThumbnail /\ encoded = <<>>
  /\ relay = "unset" /\ transferCount = NaN /\ promptError = "none"
  /\ balanceQueries = 0 /\ balance = NaN /\ insufficient = FALSE
  /\ i = 0 /\ chain = NoChain /\ anchors = <<>> /\ chainJson = NoChain
  /\ nextHash = Len(a.chain.events) + 1 /\ nextId = 1
  /\ cidCalls = <<>> /\ appended = <<>> /\ anchorCalls = <<>> /\ anchorTxs = <<>>
  /\ repackaged = <<>> /\ sendCalls = <<>> /\ completed = <<>> /\ allDone = FALSE

\* an archive with a given manifest entry and chain.json, the demo
\* package.json, no thumbnail and the base files
PlainArchive(m, v, c) ==
  [manifest |-> m, manifestValid |-> v, chain |-> c,
   pkg |-> DemoPkg, thumb |-> "absent", files |-> BaseFiles]

Archives ==
  {PlainArchive(m, v, c) : m \in Manifests, v \in BOOLEAN, c \in ArchiveChains}

Init ==
  \E z \in 0..MaxZips, k \in {"file", "dir"}, a \in Archives :
    /\ (z = 0 => k = "file" /\ a = PlainArchive("package.json", TRUE, NoChain))
    /\ (a.manifest = "missing" => a.manifestValid)
    /\ Fresh(z, k, a, FALSE)
    /\ CidIdle /\ BuildIdle

\* transfer()'s catch block: spinner.fail, then rethrow.
Throw(msg) ==
  /\ pc' = "done" /\ outcome' = "rejected" /\ error' = msg /\ abortedIn' = pc

\* ------------------------------------------------------------ findZipFile
FindZipFileFound(n) == n > 0

FindZipFile ==
  /\ pc = "locate"
  /\ IF FindZipFileFound(zips)
       THEN pc' = "parse" /\ UNCHANGED <<outcome, error, abortedIn>>
       ELSE Throw("No ZIP file found in current directory")
  /\ UNCHANGED <<disk, parsed, config, funds, iter, logs>>
  /\ UNCHANGED <<cidVars, buildVars>>

\* -------------------------------------------------------- extractMetadata
\* The manifest lookup: "ok", or the message of the error thrown.  A
\* manifest found only by the case-insensitive search is assigned to the
\* const packageJsonFile, which throws a TypeError.
ManifestLookup(a) ==
  IF a.manifest = "package.json"
    THEN (IF a.manifestValid THEN "ok" ELSE "Invalid JSON in package.json")
  ELSE IF a.manifest = "missing" THEN "ZIP does not contain package.json"
  ELSE "Assignment to constant variable."

\* existingChain: the parsed chain.json, null when absent or unparsable.
ParseChainJson(entry) == IF entry.kind = "chain" THEN entry ELSE NoChain

\* title: pkgJson.name || "Ownable", description: pkgJson.description || "",
\* keywords: pkgJson.keywords || []
Metadata(pkg) ==
  [name |-> IF pkg.name = "" THEN "Ownable" ELSE pkg.name,
   description |-> pkg.description,
   keywords |-> pkg.keywords]

\* size > 256 * 1024
OverLimit(size) == size > THUMBNAIL_LIMIT

\* The encoder calls extractMetadata makes, with their results: quality
\* 80, then 60 if the first buffer is over the limit, then 40 if the second
\* is; a rejected call ends them.
EncoderRuns ==
  {r \in UNION {[1..n -> EncodeResults] : n \in 1..3} :
     /\ \A j \in 1..(Len(r) - 1) : r[j].ok /\ OverLimit(r[j].size)
     /\ Len(r) < 3 => (~r[Len(r)].ok \/ ~OverLimit(r[Len(r)].size))}

\* mutant: the catch block leaves the thumbnail of the last successful call
ProcessThumbnailNoReset(r) ==
  IF r[Len(r)].ok THEN r[Len(r)]
  ELSE IF Len(r) > 1 THEN r[Len(r) - 1] ELSE NoThumbnail

\* the thumbnail after the try/catch: the last buffer, null when a call
\* rejected
ProcessThumbnail(r) ==
  IF \E j \in 1..Len(r) : ~r[j].ok THEN NoThumbnail ELSE r[Len(r)]

ExtractMetadata ==
  /\ pc = "parse"
  /\ IF zips = 0 \/ zipKind # "file"
       THEN Throw("readFile failed") /\ UNCHANGED parsed
     ELSE IF ManifestLookup(archive) # "ok"
       THEN Throw(ManifestLookup(archive)) /\ UNCHANGED parsed
     ELSE IF archive.thumb = "unreadable"
       THEN Throw("thumbnail.webp could not be read") /\ UNCHANGED parsed
     ELSE /\ existingChain' = ParseChainJson(archive.chain)
          /\ zipChain' = archive.chain
          /\ zipFiles' = archive.files
          /\ metadata' = Metadata(archive.pkg)
          /\ IF archive.thumb = "present"
               THEN \E r \in EncoderRuns :
                      encoded' = r /\ thumbnail' = ProcessThumbnail(r)
               ELSE encoded' = <<>> /\ thumbnail' = NoThumbnail
          /\ pc' = "configure"
          /\ UNCHANGED <<outcome, error, abortedIn>>
  /\ UNCHANGED <<disk, config, funds, iter, logs>>
  /\ UNCHANGED <<cidVars, buildVars>>

\* ------------------------------------------------------ inquirer prompts
RELAY_URL == "https://relay-dev.lto.network"
\* the IPFS node calculatePackageCID creates its client for
IPFS_URL == "https://ipfs.infura.io:5001/api/v0"
\* what the user types at the relay prompt; an empty line selects the default
RelayTyped == {"", "https://relay.example"}
\* mutant: the relay question has no default
RelayAnswerRaw(typed) == typed
RelayAnswer(typed) == IF typed = "" THEN RELAY_URL ELSE typed

\* what the number prompt hands to validate, in halves: NaN, -0.5 .. a bit
\* above MaxSmallCount, and the values around the maximum
SmallCountInputs == {NaN} \cup {Num(x) : x \in -1..(2 * MaxSmallCount + 1)}
CountInputs ==
  SmallCountInputs \cup {Num(x) : x \in (2 * MAX_TRANSFERS)..(2 * MAX_TRANSFERS + 2)}

\* validate of the transferCount question: "true" or the message shown
ValidateTransferCount(input) ==
  LET num == ParseInt(input) IN
  IF num.nan \/ num.v < 1 THEN "Please enter a number greater than 0"
  ELSE IF num.v > MAX_TRANSFERS THEN "Maximum number of transfers is 50"
  ELSE "true"

\* The prompt returns only once every validator answered true.
PromptAcceptFrom(counts) ==
  /\ pc = "configure"
  /\ \E typed \in RelayTyped, c \in counts :
       /\ ValidateTransferCount(c) = "true"
       /\ relay' = RelayAnswer(typed)
       /\ transferCount' = c
  /\ promptError' = "none"
  /\ pc' = "balance"
  /\ UNCHANGED <<outcome, error, abortedIn, disk, parsed, funds, iter, logs>>
  /\ UNCHANGED <<cidVars, buildVars>>

PromptAccept == PromptAcceptFrom(CountInputs)
\* the same prompt, answered with a small count
PromptAcceptSmall == PromptAcceptFrom(SmallCountInputs)

\* A rejected count: the message is shown and the question is asked again.
PromptReject ==
  /\ pc = "configure"
  /\ \E c \in CountInputs :
       /\ ValidateTransferCount(c) # "true"
       /\ promptError' = ValidateTransferCount(c)
  /\ UNCHANGED <<run, relay, transferCount, disk, parsed, funds, iter, logs>>
  /\ UNCHANGED <<cidVars, buildVars>>

\* ----------------------------------------------------------- checkBalance
AmpleBalance == LTO_FEE * (MAX_TRANSFERS + 1)
\* parseFloat(response.data.available) / 100000000, in quarters of LTO
BalanceAnswers == {NaN, Num(AmpleBalance)} \cup {Num(b) : b \in 0..MaxBalance}

\* transferCount * LTO_FEE (count in halves, fee and result in quarters)
RequiredBalance(count) == Num((count.v * LTO_FEE) \div 2)

\* mutant: the requirement of a single transfer, whatever the count
InsufficientOneFee(bal, required) == Lt(bal, Num(LTO_FEE))

\* balance < requiredBalance
Insufficient(bal, required) == Lt(bal, required)

\* mutant: the report is made but the return is missing
AfterBalanceGateNoReturn(short) == "validate"

\* the branch taken after the comparison: return, or go on
AfterBalanceGate(short) == IF short THEN "done" ELSE "validate"

CheckBalanceFail ==
  /\ pc = "balance"
  /\ balanceQueries' = balanceQueries + 1
  /\ Throw("Failed to check balance")
  /\ UNCHANGED <<balance, insufficient, disk, parsed, config, iter, logs>>
  /\ UNCHANGED <<cidVars, buildVars>>

CheckBalance ==
  /\ pc = "balance"
  /\ balanceQueries' = balanceQueries + 1
  /\ \E b \in BalanceAnswers :
       /\ balance' = b
       /\ insufficient' = Insufficient(b, RequiredBalance(transferCount))
  /\ pc' = AfterBalanceGate(insufficient')
  /\ outcome' = IF pc' = "done" THEN "resolved" ELSE outcome
  /\ UNCHANGED <<error, abortedIn, disk, parsed, config, iter, logs>>
  /\ UNCHANGED <<cidVars, buildVars>>

\* -------------------------------------------------------- validateZipFile
ValidateZipFile ==
  /\ pc = "validate"
  /\ IF zips = 0 THEN Throw("ZIP file not found")
     ELSE IF zipKind # "file" THEN Throw("Path is not a file")
     ELSE pc' = "loop" /\ UNCHANGED <<outcome, error, abortedIn>>
  /\ UNCHANGED <<disk, parsed, config, funds, iter, logs>>
  /\ UNCHANGED <<cidVars, buildVars>>

\* Another process removes the archive, or replaces it by a directory,
\* while transfer() is suspended at an await (at most once per run).
FsChange ==
  /\ pc \notin {"locate", "done"}
  /\ ~fsChanged
  /\ zips > 0 /\ zipKind = "file"
  /\ fsChanged' = TRUE
  /\ \/ zips' = 0 /\ zipKind' = zipKind
     \/ zips' = zips /\ zipKind' = "dir"
  /\ UNCHANGED <<run, archive, archiveFromA, parsed, config, funds, iter, logs>>
  /\ UNCHANGED <<cidVars, buildVars>>

\* ------------------------------------------------ createEventAndChainJson
\* EventChain.from(existingChain): the chain object holding the parsed
\* id and events
EventChainFrom(json) == [kind |-> "chain", id |-> json.id, events |-> json.events]
\* new EventChain(account): an empty chain under a fresh id
NewEventChain(id) == [kind |-> "chain", id |-> id, events |-> <<>>]

\* the chain an iteration starts from
StartChain(existing, freshId) ==
  IF existing.kind = "chain" THEN EventChainFrom(existing) ELSE NewEventChain(freshId)

\* i < transferCount, the count being in halves
LoopContinues(idx, count) == Lt(Num(2 * idx), count)

\* Loop head, chain set-up, then the await of findZipFile().
IterationStart ==
  /\ pc = "loop"
  /\ LoopContinues(i, transferCount)
  /\ chain' = StartChain(existingChain, nextId)
  /\ nextId' = IF existingChain.kind = "chain" THEN nextId ELSE nextId + 1
  /\ anchors' = <<>>
  /\ chainJson' = NoChain
  /\ pc' = "findZip"
  /\ UNCHANGED <<outcome, error, abortedIn, i, nextHash, disk, parsed, config, funds, logs>>
  /\ UNCHANGED <<cidVars, buildVars>>

\* Loop exit: the final report.
AllCompleted ==
  /\ pc = "loop"
  /\ ~LoopContinues(i, transferCount)
  /\ allDone' = TRUE
  /\ pc' = "done"
  /\ outcome' = "resolved"
  /\ UNCHANGED <<error, abortedIn, disk, parsed, config, funds, iter,
                 cidCalls, appended, anchorCalls, anchorTxs, repackaged, sendCalls, completed>>
  /\ UNCHANGED <<cidVars, buildVars>>

\* findZipFile() called again inside createEventAndChainJson.
FindZipFileAgain ==
  /\ pc = "findZip"
  /\ IF FindZipFileFound(zips)
       THEN pc' = "cid" /\ UNCHANGED <<outcome, error, abortedIn>>
       ELSE Throw("No ZIP file found in current directory")
  /\ UNCHANGED <<disk, parsed, config, funds, iter, logs>>
  /\ UNCHANGED <<cidVars, buildVars>>

\* calculatePackageCID: reads the archive and adds it to the IPFS node.
CalculatePackageCID ==
  /\ pc = "cid"
  /\ IF zipKind # "file"
       THEN Throw("readFile failed") /\ UNCHANGED cidCalls
       ELSE /\ cidCalls' = Append(cidCalls, [iter |-> i + 1, events |-> Len(chain.events),
                                        addedTo |-> IPFS_URL])
            /\ pc' = "addEvent"
            /\ UNCHANGED <<outcome, error, abortedIn>>
  /\ UNCHANGED <<disk, parsed, config, funds, iter,
                 appended, anchorCalls, anchorTxs, repackaged, sendCalls, completed, allDone>>
  /\ UNCHANGED <<cidVars, buildVars>>

\* ipfs.add rejects (node unreachable, request refused).
CalculatePackageCIDFail ==
  /\ pc = "cid"
  /\ zipKind = "file"
  /\ cidCalls' = Append(cidCalls, [iter |-> i + 1, events |-> Len(chain.events),
                                        addedTo |-> IPFS_URL])
  /\ Throw("ipfs.add failed")
  /\ UNCHANGED <<disk, parsed, config, funds, iter,
                 appended, anchorCalls, anchorTxs, repackaged, sendCalls, completed, allDone>>
  /\ UNCHANGED <<cidVars, buildVars>>

\* new Event(msg).addTo(chain).signWith(account)
NewEvent(h) == [hash |-> h, context |-> "execute_msg.json"]
AddTo(ch, ev) == [ch EXCEPT !.events = Append(@, ev)]

\* position of the first event with hash h (findIndex), 0 when none
IndexOf(events, h) ==
  IF \E j \in 1..Len(events) : events[j].hash = h
    THEN CHOOSE j \in 1..Len(events) :
           /\ events[j].hash = h
           /\ \A l \in 1..(j - 1) : events[l].hash # h
    ELSE 0

\* anchorMap: one anchor per event, in chain order (the event hashes)
AnchorMap(events) == [j \in 1..Len(events) |-> events[j].hash]
\* chain.startingAfter(hash) / chain.startingWith(hash): the partial chain
StartingAfter(ch, h) == SubSeq(ch.events, IndexOf(ch.events, h) + 1, Len(ch.events))
StartingWith(ch, h) == SubSeq(ch.events, IndexOf(ch.events, h), Len(ch.events))
LatestHash(ch) == ch.events[Len(ch.events)].hash

\* chain.events[chain.events.length - 2] is undefined: reading .hash throws
NoPreviousEvent(ch, existing) == existing.kind = "chain" /\ Len(ch.events) < 2

\* mutant: the partial chain starts after the latest event and is empty
GetAnchorsNone(ch, existing) == <<>>

\* mutant: the anchors of the whole chain, whether it was loaded or not
GetAnchorsWholeChain(ch, existing) == AnchorMap(ch.events)

\* the anchors handed to lto.anchor
GetAnchors(ch, existing) ==
  IF existing.kind = "chain"
    THEN AnchorMap(StartingAfter(ch, ch.events[Len(ch.events) - 1].hash))
    ELSE AnchorMap(StartingWith(ch, LatestHash(ch)))

\* The event is added to the chain and the anchors are taken; the anchoring
\* call is skipped when there are none.
AddEvent ==
  /\ pc = "addEvent"
  /\ chain' = AddTo(chain, NewEvent(nextHash))
  /\ nextHash' = nextHash + 1
  /\ appended' = Append(appended, [iter |-> i + 1, hash |-> nextHash,
                                    chainId |-> chain.id, context |-> NewEvent(nextHash).context])
  /\ IF NoPreviousEvent(chain', existingChain)
       THEN /\ Throw("Cannot read properties of undefined (reading 'hash')")
            /\ UNCHANGED <<anchors, chainJson>>
       ELSE /\ anchors' = GetAnchors(chain', existingChain)
            /\ IF Len(anchors') > 0
                 THEN pc' = "anchor" /\ chainJson' = chainJson
                 ELSE pc' = "repackage" /\ chainJson' = chain'
            /\ UNCHANGED <<outcome, error, abortedIn>>
  /\ UNCHANGED <<i, nextId, disk, parsed, config, funds,
                 cidCalls, anchorCalls, anchorTxs, repackaged, sendCalls, completed, allDone>>
  /\ UNCHANGED <<cidVars, buildVars>>

\* lto.anchor(account, ...anchors) resolves with the transaction.
Anchor ==
  /\ pc = "anchor"
  /\ anchorCalls' = Append(anchorCalls, [iter |-> i + 1, anchors |-> anchors, chain |-> chain, ok |-> TRUE])
  /\ anchorTxs' = Append(anchorTxs, i + 1)
  /\ chainJson' = chain
  /\ pc' = "repackage"
  /\ UNCHANGED <<outcome, error, abortedIn, i, chain, anchors, nextHash, nextId,
                 disk, parsed, config, funds,
                 cidCalls, appended, repackaged, sendCalls, completed, allDone>>
  /\ UNCHANGED <<cidVars, buildVars>>

\* mutant: the catch block does not rethrow
OnAnchorErrorSwallowed == "continue"

\* what follows a rejected lto.anchor: "throw" (spinner.fail, rethrow)
OnAnchorError == "throw"

\* lto.anchor rejects.
AnchorFail ==
  /\ pc = "anchor"
  /\ anchorCalls' = Append(anchorCalls, [iter |-> i + 1, anchors |-> anchors, chain |-> chain, ok |-> FALSE])
  /\ IF OnAnchorError = "throw"
       THEN Throw("Anchoring failed") /\ UNCHANGED chainJson
       ELSE pc' = "repackage" /\ chainJson' = chain /\ UNCHANGED <<outcome, error, abortedIn>>
  /\ UNCHANGED <<i, chain, anchors, nextHash, nextId, disk, parsed, config, funds,
                 cidCalls, appended, anchorTxs, repackaged, sendCalls, completed, allDone>>
  /\ UNCHANGED <<cidVars, buildVars>>

\* ------------------------------------------------------ addChainJsonToZip
\* zip.file("chain.json", JSON.stringify(chainJson)) on the shared zip object
\* zip.file(name, data): sets that entry, leaves the others
ZipFile(z, name, data) ==
  IF name = "chain.json" THEN [z EXCEPT !.chain = data]
  ELSE [z EXCEPT !.files = [n \in DOMAIN z.files \cup {name} |->
                              IF n = name THEN data ELSE z.files[n]]]

AddChainJsonToZip ==
  /\ pc = "repackage"
  /\ LET z == ZipFile([chain |-> zipChain, files |-> zipFiles], "chain.json", chainJson)
     IN zipChain' = z.chain /\ zipFiles' = z.files
  /\ repackaged' = Append(repackaged, i + 1)
  /\ pc' = "send"
  /\ UNCHANGED <<outcome, error, abortedIn, existingChain, metadata, thumbnail, encoded,
                 disk, config, funds, iter,
                 cidCalls, appended, anchorCalls, anchorTxs, sendCalls, completed, allDone>>
  /\ UNCHANGED <<cidVars, buildVars>>

\* ------------------------------------------------------------- relay send
\* relay || relay.trim() !== ""
RelayGiven(r) == r # ""

\* mutant: the catch block does not rethrow
OnSendErrorSwallowed == "continue"

\* what follows a rejected relayClient.send: "throw" (spinner.fail, rethrow)
OnSendError == "throw"

\* relayClient.send(message) resolves, or no relay was given: the transfer
\* is reported completed and the loop goes on (after the 1 s delay).
RelaySend ==
  /\ pc = "send"
  /\ sendCalls' = IF RelayGiven(relay)
                    THEN Append(sendCalls, [iter |-> i + 1, chain |-> zipChain, files |-> zipFiles,
                                            thumbnail |-> thumbnail, ok |-> TRUE])
                    ELSE sendCalls
  /\ completed' = Append(completed, i + 1)
  /\ i' = i + 1
  /\ pc' = "loop"
  /\ UNCHANGED <<outcome, error, abortedIn, chain, anchors, chainJson, nextHash, nextId,
                 disk, parsed, config, funds,
                 cidCalls, appended, anchorCalls, anchorTxs, repackaged, allDone>>
  /\ UNCHANGED <<cidVars, buildVars>>

\* relayClient.send(message) rejects.
RelaySendFail ==
  /\ pc = "send"
  /\ RelayGiven(relay)
  /\ sendCalls' = Append(sendCalls, [iter |-> i + 1, chain |-> zipChain, files |-> zipFiles,
                                        thumbnail |-> thumbnail, ok |-> FALSE])
  /\ IF OnSendError = "throw"
       THEN Throw("relay send failed") /\ UNCHANGED i
       ELSE pc' = "loop" /\ i' = i + 1 /\ UNCHANGED <<outcome, error, abortedIn>>
  /\ UNCHANGED <<chain, anchors, chainJson, nextHash, nextId, disk, parsed, config, funds,
                 cidCalls, appended, anchorCalls, anchorTxs, repackaged, completed, allDone>>
  /\ UNCHANGED <<cidVars, buildVars>>

\* ------------------------------------------------------------------ rerun
\* The package delivered last becomes the archive of the next invocation
\* (the recipient transfers the ownable on).  Event hashes are opaque, so
\* the events of the delivered chain are renamed 1..k.
Delivered == sendCalls[Len(sendCalls)].chain

\* Scenario A: no chain.json in the archive, one transfer requested, all done
ScenarioARun == archive.chain.kind = "absent" /\ transferCount = Num(2) /\ allDone

Rerun ==
  /\ pc = "done" /\ allDone /\ sendCalls # <<>>
  /\ sendCalls[Len(sendCalls)].ok
  /\ Len(Delivered.events) <= MaxExisting
  /\ pc' = "locate" /\ outcome' = "running" /\ error' = "none" /\ abortedIn' = "none"
  /\ zips' = 1 /\ zipKind' = "file" /\ fsChanged' = FALSE
  /\ archive' = [archive EXCEPT !.chain = ParsedChain(Len(Delivered.events))]
  /\ archiveFromA' = ScenarioARun
  /\ existingChain' = NoChain /\ zipChain' = NoChain
  /\ zipFiles' = <<>> /\ metadata' = BarePkg /\ thumbnail' = NoThumbnail /\ encoded' = <<>>
  /\ relay' = "unset" /\ transferCount' = NaN /\ promptError' = "none"
  /\ balanceQueries' = 0 /\ balance' = NaN /\ insufficient' = FALSE
  /\ i' = 0 /\ chain' = NoChain /\ anchors' = <<>> /\ chainJson' = NoChain
  /\ nextHash' = Len(Delivered.events) + 1 /\ nextId' = 1
  /\ cidCalls' = <<>> /\ appended' = <<>> /\ anchorCalls' = <<>> /\ anchorTxs' = <<>>
  /\ repackaged' = <<>> /\ sendCalls' = <<>> /\ completed' = <<>> /\ allDone' = FALSE
  /\ UNCHANGED <<cidVars, buildVars>>

Next ==
  \/ FindZipFile
  \/ ExtractMetadata
  \/ PromptAccept
  \/ PromptReject
  \/ CheckBalanceFail
  \/ CheckBalance
  \/ ValidateZipFile
  \/ FsChange
  \/ IterationStart
  \/ AllCompleted
  \/ FindZipFileAgain
  \/ CalculatePackageCID
  \/ CalculatePackageCIDFail
  \/ AddEvent
  \/ Anchor
  \/ AnchorFail
  \/ AddChainJsonToZip
  \/ RelaySend
  \/ RelaySendFail
  \/ Rerun

Spec == Init /\ [][Next]_vars

\* ---------------------------------------------------------------------
\* The same command over archives that differ in their package.json and
\* their thumbnail.webp, in a directory holding that one zip.
ThumbArchives ==
  {[PlainArchive("package.json", TRUE, c) EXCEPT !.pkg = p, !.thumb = t] :
     c \in {NoChain, ParsedChain(1)}, p \in PkgJsons, t \in Thumbs}

InitArchive == \E a \in ThumbArchives : Fresh(1, "file", a, FALSE) /\ CidIdle /\ BuildIdle

NextArchive ==
  \/ FindZipFile
  \/ ExtractMetadata
  \/ PromptAcceptSmall
  \/ PromptReject
  \/ CheckBalanceFail
  \/ CheckBalance
  \/ ValidateZipFile
  \/ IterationStart
  \/ AllCompleted
  \/ FindZipFileAgain
  \/ CalculatePackageCID
  \/ CalculatePackageCIDFail
  \/ AddEvent
  \/ Anchor
  \/ AnchorFail
  \/ AddChainJsonToZip
  \/ RelaySend
  \/ RelaySendFail

SpecArchive == InitArchive /\ [][NextArchive]_vars

\* ---------------------------------------------------------------------
\* The CID functions: calculateZipCID and calculateDirectoryCID of the CID
\* calculator, and calculatePackageCID, which transfer() calls.
\*
\* A path is the sequence of its segments ("dir/.hidden" is
\* <<"dir", ".hidden">>); an entry is [path, dir, bytes], dir marking a
\* directory entry ("dir/").
FileEntry(p, b) == [path |-> p, dir |-> FALSE, bytes |-> b]
DirEntry(p) == [path |-> p, dir |-> TRUE, bytes |-> 0]
CidPaths ==
  {<<"package.json">>, <<"index.html">>, <<"chain.json">>, <<".hidden">>,
   <<"dir", ".hidden">>, <<"sub", "chain.json">>}
CidEntries == {FileEntry(p, 1) : p \in CidPaths} \cup {DirEntry(<<"dir">>)}
\* the packages: up to MaxEntries entries with different names, in any order
Packages ==
  {s \in UNION {[1..n -> CidEntries] : n \in 0..MaxEntries} :
     \A j, k \in DOMAIN s : j # k => s[j] # s[k]}

\* path.basename(filePath)
Basename(p) == p[Len(p)]
\* name.startsWith("."), over the segment names in use
StartsWithDot(name) == name \in {".hidden"}

\* An exclude pattern: [kind, name], kind "glob" for a pattern holding "*",
\* "dir" for one ending in "/" (name without the slash), "exact" otherwise.
HiddenPattern == [kind |-> "glob", name |-> ".*"]
DefaultPatterns == {[kind |-> "exact", name |-> "chain.json"], HiddenPattern}
\* what a caller of calculateDirectoryCID passes as excludePatterns
CallerPatterns ==
  {DefaultPatterns,
   DefaultPatterns \cup {[kind |-> "exact", name |-> "index.html"]},
   DefaultPatterns \cup {[kind |-> "dir", name |-> "dir"]}}

\* one pattern of shouldExclude against filePath (isDir: the path ends in "/")
PatternExcludes(p, isDir, pat) ==
  IF pat = HiddenPattern /\ StartsWithDot(Basename(p)) THEN TRUE
  ELSE IF pat.kind = "glob" THEN StartsWithDot(p[1])       \* /^\..*$/ on the whole path
  ELSE IF pat.kind = "dir" THEN p[1] = pat.name            \* startsWith(pattern) or the bare name
  ELSE \/ (Len(p) = 1 /\ ~isDir /\ p[1] = pat.name)       \* filePath === pattern
       \/ Basename(p) = pat.name

\* patterns.some(...)
shouldExclude(p, isDir, patterns) ==
  \E pat \in patterns : PatternExcludes(p, isDir, pat)

\* the name of a zip entry: a directory entry ends in "/"
EntryName(e) == IF e.dir THEN e.path \o <<"">> ELSE e.path
\* { path: `./package/${filename}`, content }
ImportFile(e) == [path |-> <<".", "package">> \o e.path, content |-> e.bytes]
\* newZip.file(filename, content)
ZipEntry(e) == [path |-> EntryName(e), content |-> e.bytes]

\* calculateZipCID: the entries that are no directory and not excluded
ZipIncluded(e) == ~e.dir /\ ~shouldExclude(e.path, FALSE, DefaultPatterns)
\* calculateDirectoryCID: walkDirectory descends into the directories
\* that are not excluded and takes the files that are not excluded
DirectoryIncluded(e, patterns) ==
  /\ ~e.dir
  /\ \A n \in 1..(Len(e.path) - 1) : ~shouldExclude(SubSeq(e.path, 1, n), TRUE, patterns)
  /\ ~shouldExclude(e.path, FALSE, patterns)
\* calculatePackageCID: !filename.startsWith(".") && filename !== "chain.json"
PackageIncluded(e) ==
  /\ ~StartsWithDot(e.path[1])
  /\ EntryName(e) # <<"chain.json">>

\* the files each function collects, in the order it meets them
CidFilesOf(fn, entries, patterns) ==
  LET sel == IF fn = "zip" THEN SelectSeq(entries, ZipIncluded)
             ELSE IF fn = "dir"
               THEN SelectSeq(entries, LAMBDA e : DirectoryIncluded(e, patterns))
             ELSE SelectSeq(entries, PackageIncluded)
  IN [j \in 1..Len(sel) |-> IF fn = "package" THEN ZipEntry(sel[j]) ELSE ImportFile(sel[j])]

\* mutant: the collected files are not counted
NoFilesUnchecked(f) == FALSE

\* files.length === 0
NoFiles(f) == Len(f) = 0

\* the options of an importer call, and of ipfs.add
ImporterOptions(name) ==
  IF name = "primary"
    THEN [chunker |-> "size-262144", rawLeaves |-> "true", cidVersion |-> "1"]
  ELSE IF name = "directory"
    THEN [chunker |-> "default", rawLeaves |-> "default", cidVersion |-> "1"]
  ELSE [chunker |-> "default", rawLeaves |-> "default", cidVersion |-> "default"]

\* what an importer run does: it yields the "package" directory entry, it
\* ends without one, or it throws
ImporterOutcomes == {"directory", "nodirectory", "throws"}

CidError(msg) == [kind |-> "error", text |-> msg]
CidOf(name) == [kind |-> "cid", text |-> name]

InitCid ==
  /\ Fresh(0, "file", PlainArchive("package.json", TRUE, NoChain), FALSE)
  /\ BuildIdle
  /\ cidFn \in {"zip", "dir", "package"}
  /\ cidInput \in Packages
  /\ excludePatterns \in (IF cidFn = "dir" THEN CallerPatterns
                          ELSE IF cidFn = "zip" THEN {DefaultPatterns} ELSE {{}})
  /\ cidPc = "collect"
  /\ cidFiles = <<>> /\ importerCalls = <<>> /\ directoryCid = NoCid

\* The loop over the entries, then the check that there are files.
CollectFiles ==
  /\ cidPc = "collect"
  /\ cidFiles' = CidFilesOf(cidFn, cidInput, excludePatterns)
  /\ IF cidFn = "package"
       THEN cidPc' = "add" /\ UNCHANGED directoryCid
     ELSE IF NoFiles(cidFiles')
       THEN /\ directoryCid' = CidError("No files found to process after filtering")
            /\ cidPc' = "done"
     ELSE cidPc' = "import" /\ UNCHANGED directoryCid
  /\ UNCHANGED <<cidFn, cidInput, excludePatterns, importerCalls>>
  /\ UNCHANGED <<transferVars, buildVars>>

\* mutant: the second importer run is made whatever the first one did
RetryOnAlways(o) == TRUE

\* calculateZipCID's catch (importError): entered when the first run throws
RetryOn(o) == o = "throws"

\* The importer run: calculateZipCID's first one, calculateDirectoryCID's
\* only one.
Import ==
  /\ cidPc = "import"
  /\ \E o \in ImporterOutcomes :
       /\ importerCalls' = Append(importerCalls,
            [config |-> ImporterOptions(IF cidFn = "zip" THEN "primary" ELSE "directory"),
             files |-> cidFiles, outcome |-> o])
       /\ IF cidFn = "zip" /\ RetryOn(o)
            THEN cidPc' = "fallback" /\ UNCHANGED directoryCid
          ELSE IF o = "directory"
            THEN directoryCid' = CidOf("first") /\ cidPc' = "done"
          ELSE IF o = "nodirectory"
            THEN directoryCid' = CidError("Failed to calculate directory CID") /\ cidPc' = "done"
          ELSE directoryCid' = CidError("importer failed") /\ cidPc' = "done"
  /\ UNCHANGED <<cidFn, cidInput, excludePatterns, cidFiles>>
  /\ UNCHANGED <<transferVars, buildVars>>

\* calculateZipCID's catch block: the importer once more, with fewer options.
ImportFallback ==
  /\ cidPc = "fallback"
  /\ \E o \in ImporterOutcomes :
       /\ importerCalls' = Append(importerCalls,
            [config |-> ImporterOptions("fallback"), files |-> cidFiles, outcome |-> o])
       /\ directoryCid' =
            IF o = "directory" THEN CidOf("fallback")
            ELSE IF o = "nodirectory" THEN CidError("Failed to calculate directory CID")
            ELSE CidError("importer failed")
  /\ cidPc' = "done"
  /\ UNCHANGED <<cidFn, cidInput, excludePatterns, cidFiles>>
  /\ UNCHANGED <<transferVars, buildVars>>

\* calculatePackageCID: the new zip is added to the IPFS node.
IpfsAdd ==
  /\ cidPc = "add"
  /\ \E o \in {"directory", "throws"} :
       /\ importerCalls' = Append(importerCalls,
            [config |-> ImporterOptions("ipfs.add"), files |-> cidFiles, outcome |-> o])
       /\ directoryCid' = IF o = "throws" THEN CidError("ipfs.add failed") ELSE CidOf("ipfs.add")
  /\ cidPc' = "done"
  /\ UNCHANGED <<cidFn, cidInput, excludePatterns, cidFiles>>
  /\ UNCHANGED <<transferVars, buildVars>>

NextCid ==
  \/ CollectFiles
  \/ Import
  \/ ImportFallback
  \/ IpfsAdd

SpecCid == InitCid /\ [][NextCid]_vars

\* ---------------------------------------------------------------------
\* build(): checkPrerequisites and checkProjectStructure, buildWasm,
\* getMetadataFromCargo, createPackage in a temporary directory, cleanup.
\* The project directory, build/schema and the temporary directories stay
\* as a run leaves them for the next run.

\* checkPrerequisites: the error for the first missing tool
PrerequisiteError(p) ==
  IF p = "rustc" THEN "Rust is not installed"
  ELSE IF p = "wasm-pack" THEN "wasm-pack is not installed"
  ELSE "none"

\* mutant: the project directory is not looked at
StructureErrorUnchecked(pr) == "none"

\* checkProjectStructure: the error of the first test that fails
StructureError(pr) ==
  IF pr.cargoToml = "absent"
    THEN "No Cargo.toml found in the current directory. Please run this command in an Ownable project directory."
  ELSE IF pr.layout = "no src" THEN "No src directory found. Please ensure this is a valid Ownable project."
  ELSE IF pr.layout = "no images dir" THEN "No images directory found in assets directory."
  ELSE IF pr.images = 0 THEN "No images found in assets/images directory."
  ELSE "none"

\* Promise.all([checkPrerequisites(), checkProjectStructure()]): both are
\* called; the rejection of the first one wins
CheckError(p, pr) ==
  IF PrerequisiteError(p) # "none" THEN PrerequisiteError(p) ELSE StructureError(pr)

Projects ==
  {[cargoToml |-> c, layout |-> l, images |-> n] :
     c \in {"absent", "original"}, l \in {"ok", "no src", "no images dir"}, n \in 0..1}

\* what `cargo run --example schema` leaves in the project's schema
\* directory: nothing, four of the five required files, or all five
GeneratedSchemas ==
  {{}, REQUIRED_SCHEMA_FILES \ {"execute_msg.json"}, REQUIRED_SCHEMA_FILES}

InitBuild ==
  /\ Fresh(0, "file", PlainArchive("package.json", TRUE, NoChain), FALSE)
  /\ CidIdle
  /\ bPc = "idle" /\ bOutcome = "none" /\ bError = "none" /\ bSteps = <<>> /\ builds = 0
  /\ prerequisites \in {"ok", "rustc", "wasm-pack"}
  /\ project \in Projects
  /\ schemaDir = NoSchemaDir /\ tmpDirs = 0 /\ zipWritten = FALSE

\* catch (error) { spinner.fail; throw error }
Reject(msg) ==
  /\ bPc' = "done" /\ bOutcome' = "rejected" /\ bError' = msg

\* build() is called (again).
BuildStart ==
  /\ bPc \in {"idle", "done"}
  /\ builds < MaxBuilds
  /\ builds' = builds + 1
  /\ bPc' = "check" /\ bOutcome' = "running" /\ bError' = "none" /\ bSteps' = <<>>
  /\ UNCHANGED <<prerequisites, project, schemaDir, tmpDirs, zipWritten>>
  /\ UNCHANGED <<transferVars, cidVars>>

CheckEnvironment ==
  /\ bPc = "check"
  /\ IF CheckError(prerequisites, project) # "none"
       THEN Reject(CheckError(prerequisites, project))
       ELSE bPc' = "rewrite" /\ UNCHANGED <<bOutcome, bError>>
  /\ UNCHANGED <<bSteps, builds, prerequisites, project, schemaDir, tmpDirs, zipWritten>>
  /\ UNCHANGED <<transferVars, cidVars>>

\* buildWasm: Cargo.toml is read and written back with name = "ownable".
RewriteCargoToml ==
  /\ bPc = "rewrite"
  /\ IF project.cargoToml = "absent"
       THEN Reject("WASM build process failed") /\ UNCHANGED <<bSteps, project>>
       ELSE /\ project' = [project EXCEPT !.cargoToml = "rewritten"]
            /\ bSteps' = Append(bSteps, "Cargo.toml rewritten")
            /\ bPc' = "wasmPack"
            /\ UNCHANGED <<bOutcome, bError>>
  /\ UNCHANGED <<builds, prerequisites, schemaDir, tmpDirs, zipWritten>>
  /\ UNCHANGED <<transferVars, cidVars>>

\* buildWasm: wasm-pack build, which succeeds or fails.
WasmPack ==
  /\ bPc = "wasmPack"
  /\ bSteps' = Append(bSteps, "wasm-pack build")
  /\ \/ bPc' = "schema" /\ UNCHANGED <<bOutcome, bError>>
     \/ Reject("WASM build process failed")
  /\ UNCHANGED <<builds, prerequisites, project, schemaDir, tmpDirs, zipWritten>>
  /\ UNCHANGED <<transferVars, cidVars>>

\* buildWasm: build/schema exists: its files are used as they are;
\* otherwise the directory is created for the generation.
SchemaExists ==
  /\ bPc = "schema"
  /\ IF schemaDir.exists
       THEN /\ bSteps' = Append(bSteps, "buildWasm returned")
            /\ bPc' = "metadata"
            /\ UNCHANGED schemaDir
       ELSE /\ schemaDir' = [exists |-> TRUE, files |-> {}, valid |-> TRUE]
            /\ bPc' = "generate"
            /\ UNCHANGED bSteps
  /\ UNCHANGED <<bOutcome, bError, builds, prerequisites, project, tmpDirs, zipWritten>>
  /\ UNCHANGED <<transferVars, cidVars>>

\* buildWasm: cargo run --example schema fails, or its files are copied
\* into build/schema and validated.
GenerateSchema ==
  /\ bPc = "generate"
  /\ bSteps' = Append(bSteps, "cargo run --example schema")
  /\ \/ Reject("WASM build process failed") /\ UNCHANGED schemaDir
     \/ \E g \in GeneratedSchemas, v \in BOOLEAN :
          /\ schemaDir' = [exists |-> TRUE, files |-> g, valid |-> v]
          /\ bPc' = "validate"
          /\ UNCHANGED <<bOutcome, bError>>
  /\ UNCHANGED <<builds, prerequisites, project, tmpDirs, zipWritten>>
  /\ UNCHANGED <<transferVars, cidVars>>

\* buildWasm: the required files are looked for and every file is parsed.
ValidateSchema ==
  /\ bPc = "validate"
  /\ IF REQUIRED_SCHEMA_FILES \ schemaDir.files # {} \/ ~schemaDir.valid
       THEN Reject("WASM build process failed") /\ UNCHANGED bSteps
       ELSE /\ bSteps' = Append(bSteps, "buildWasm returned")
            /\ bPc' = "metadata"
            /\ UNCHANGED <<bOutcome, bError>>
  /\ UNCHANGED <<builds, prerequisites, project, schemaDir, tmpDirs, zipWritten>>
  /\ UNCHANGED <<transferVars, cidVars>>

\* getMetadataFromCargo: metadata.txt or Cargo.toml is parsed, or cannot be.
GetMetadataFromCargo ==
  /\ bPc = "metadata"
  /\ \/ bPc' = "mkdtemp" /\ UNCHANGED <<bOutcome, bError>>
     \/ Reject("metadata could not be read")
  /\ UNCHANGED <<bSteps, builds, prerequisites, project, schemaDir, tmpDirs, zipWritten>>
  /\ UNCHANGED <<transferVars, cidVars>>

\* fs.promises.mkdtemp(os.tmpdir() + "/ownable-")
MakeTmpDir ==
  /\ bPc = "mkdtemp"
  /\ tmpDirs' = tmpDirs + 1
  /\ bPc' = "ownableType"
  /\ UNCHANGED <<bOutcome, bError, bSteps, builds, prerequisites, project, schemaDir, zipWritten>>
  /\ UNCHANGED <<transferVars, cidVars>>

\* getOwnableType(projectPath), awaited as an argument of createPackage
GetOwnableType ==
  /\ bPc = "ownableType"
  /\ \/ bPc' = "package" /\ UNCHANGED <<bOutcome, bError>>
     \/ Reject("ownable type could not be determined")
  /\ UNCHANGED <<bSteps, builds, prerequisites, project, schemaDir, tmpDirs, zipWritten>>
  /\ UNCHANGED <<transferVars, cidVars>>

\* createPackage writes the zip, or fails on the way.
CreatePackage ==
  /\ bPc = "package"
  /\ \/ /\ zipWritten' = TRUE
        /\ bSteps' = Append(bSteps, "package created")
        /\ bPc' = "cleanup"
        /\ UNCHANGED <<bOutcome, bError>>
     \/ Reject("Failed to create package") /\ UNCHANGED <<zipWritten, bSteps>>
  /\ UNCHANGED <<builds, prerequisites, project, schemaDir, tmpDirs>>
  /\ UNCHANGED <<transferVars, cidVars>>

\* fs.remove(tmpDir), then the success report.
Cleanup ==
  /\ bPc = "cleanup"
  /\ tmpDirs' = tmpDirs - 1
  /\ bPc' = "done" /\ bOutcome' = "resolved"
  /\ UNCHANGED <<bError, bSteps, builds, prerequisites, project, schemaDir, zipWritten>>
  /\ UNCHANGED <<transferVars, cidVars>>

\* clean(): the build directory is removed between two builds.
Clean ==
  /\ bPc = "done"
  /\ schemaDir.exists
  /\ schemaDir' = NoSchemaDir
  /\ bPc' = "idle" /\ bOutcome' = "none" /\ bError' = "none" /\ bSteps' = <<>>
  /\ UNCHANGED <<builds, prerequisites, project, tmpDirs, zipWritten>>
  /\ UNCHANGED <<transferVars, cidVars>>

NextBuild ==
  \/ BuildStart
  \/ CheckEnvironment
  \/ RewriteCargoToml
  \/ WasmPack
  \/ SchemaExists
  \/ GenerateSchema
  \/ ValidateSchema
  \/ GetMetadataFromCargo
  \/ MakeTmpDir
  \/ GetOwnableType
  \/ CreatePackage
  \/ Cleanup
  \/ Clean

SpecBuild == InitBuild /\ [][NextBuild]_vars

\* ------------------------------------------------------------------ claims
Iters(log) == [k \in 1..Len(log) |-> log[k].iter]
Range(seq) == {seq[k] : k \in 1..Len(seq)}
NoEffects == appended = <<>> /\ anchorCalls = <<>> /\ sendCalls = <<>>

\* C1: balance gate.  Whenever the queried balance is below
\* transferCount * LTO_FEE the run has stopped, and no event was appended,
\* no anchoring call and no relay delivery call was made in that run.
C1_BalanceGate ==
  Lt(balance, RequiredBalance(transferCount)) => pc = "done" /\ NoEffects

\* the gate stops a run whose balance covers one transfer but not the two requested
C1_Witness ==
  /\ transferCount = Num(4) /\ balance = Num(3)
  /\ pc = "done" /\ insufficient

\* C2: an insufficient balance ends transfer() in an error: the call
\* rejects instead of returning normally.
C2_InsufficientRejects == insufficient => outcome = "rejected"

\* C3: Scenario A.  No chain.json, transfer_count = 1: a create event and
\* then a transfer event are appended to the same new chain, one anchoring
\* call carries 2 anchors, one delivery call is made and the delivered
\* chain.json holds 2 events.
C3_ScenarioA ==
  (ScenarioARun /\ pc = "done") =>
    /\ Len(appended) = 2
    /\ appended[1].context = "instantiate_msg.json"
    /\ appended[2].context = "execute_msg.json"
    /\ appended[1].chainId = appended[2].chainId
    /\ Len(anchorCalls) = 1
    /\ Len(anchorCalls[1].anchors) = 2
    /\ Len(sendCalls) = 1
    /\ Len(sendCalls[1].chain.events) = 2

\* C4: Scenario B.  Run again, with transfer_count = 1, on the package that
\* Scenario A delivered: one event is appended, it is the 3rd event of the
\* chain, and the one anchoring call carries exactly that event.
C4_ScenarioB ==
  (archiveFromA /\ transferCount = Num(2) /\ allDone /\ pc = "done") =>
    /\ Len(appended) = 1
    /\ Len(anchorCalls) = 1
    /\ anchorCalls[1].anchors = <<appended[1].hash>>
    /\ Len(sendCalls) = 1
    /\ Len(Delivered.events) = 3

SendFailedIn(n) == \E k \in 1..Len(sendCalls) : sendCalls[k].iter = n /\ ~sendCalls[k].ok

\* C5: Scenario C.  transfer_count = 3 and the delivery of iteration 2
\* fails: iteration 1 was anchored, delivered and reported, the run ended
\* in an error in iteration 2, whose delivery was tried once, and nothing
\* of iteration 3 happened.
C5_ScenarioC ==
  (transferCount = Num(6) /\ SendFailedIn(2)) =>
    /\ pc = "done" /\ outcome = "rejected" /\ abortedIn = "send"
    /\ ~allDone
    /\ completed = <<1>>
    /\ Iters(sendCalls) = <<1, 2>> /\ sendCalls[1].ok
    /\ Iters(anchorCalls) = <<1, 2>> /\ anchorCalls[1].ok /\ anchorTxs = <<1, 2>>
    /\ Iters(appended) = <<1, 2>>
    /\ Iters(cidCalls) = <<1, 2>>
    /\ repackaged = <<1, 2>>

C5_Witness == transferCount = Num(6) /\ SendFailedIn(2) /\ pc = "done"

\* chain a is a proper prefix of chain b: same id, same events in the same
\* order, and b has more
ProperPrefix(a, b) ==
  /\ a.id = b.id
  /\ Len(a.events) < Len(b.events)
  /\ SubSeq(b.events, 1, Len(a.events)) = a.events

\* C6: the chain is append-only across the iterations of a run: the chain
\* delivered by an iteration extends the chain delivered by the iteration
\* before it.
C6_AppendOnly ==
  \A k \in 1..(Len(sendCalls) - 1) :
    ProperPrefix(sendCalls[k].chain, sendCalls[k + 1].chain)

AnchorFailed == \E k \in 1..Len(anchorCalls) : ~anchorCalls[k].ok
FailedAnchorIter == anchorCalls[Len(anchorCalls)].iter

\* C7: a failed anchoring call is terminal.  It is the last anchoring call
\* and the only one of its iteration, no anchor transaction is recorded for
\* the iteration, the zip is not repackaged, nothing is delivered or
\* reported for it, no later iteration starts and transfer() rejects.
C7_AnchorFailureTerminal ==
  AnchorFailed =>
    /\ ~anchorCalls[Len(anchorCalls)].ok
    /\ \A k \in 1..(Len(anchorCalls) - 1) :
         anchorCalls[k].ok /\ anchorCalls[k].iter < FailedAnchorIter
    /\ FailedAnchorIter \notin Range(anchorTxs)
    /\ FailedAnchorIter \notin Range(repackaged)
    /\ FailedAnchorIter \notin Range(Iters(sendCalls))
    /\ FailedAnchorIter \notin Range(completed)
    /\ \A n \in Range(Iters(cidCalls)) \cup Range(Iters(appended)) : n <= FailedAnchorIter
    /\ i + 1 = FailedAnchorIter
    /\ ~allDone
    /\ pc = "done" /\ outcome = "rejected" /\ abortedIn = "anchor"

C7_Witness ==
  /\ AnchorFailed /\ FailedAnchorIter = 2 /\ pc = "done"
  /\ transferCount = Num(6)

\* the events of ch that were not in the chain loaded from the archive:
\* the suffix after the last loaded event, the whole chain when none was loaded
Unanchored(ch) ==
  AnchorMap(SubSeq(ch.events, Len(existingChain.events) + 1, Len(ch.events)))

\* the anchoring call made last
LastAnchorCall == anchorCalls[Len(anchorCalls)]

\* C8: every anchoring call submits exactly the events of its chain that
\* were not anchored before, in chain order (the suffix after the last
\* event of the loaded chain; the whole chain when none was loaded), the
\* call is not made with no anchors, and no hash is submitted twice in a
\* run.  The log of calls only grows at its end, so stating this of the
\* call made last, in every state, states it of every call.
C8_UnanchoredSuffix ==
  /\ anchorCalls # <<>> =>
       /\ LastAnchorCall.anchors = Unanchored(LastAnchorCall.chain)
       /\ LastAnchorCall.anchors # <<>>
       /\ Cardinality(Range(LastAnchorCall.anchors)) = Len(LastAnchorCall.anchors)
       /\ \A j \in 1..(Len(anchorCalls) - 1) :
            Range(anchorCalls[j].anchors) \cap Range(LastAnchorCall.anchors) = {}
  /\ pc = "anchor" => anchors # <<>>

\* two anchoring calls were made on a chain loaded with two events
C8_Witness ==
  /\ Len(existingChain.events) = 2
  /\ Len(anchorCalls) = 2 /\ anchorCalls[2].ok

\* C9: a fatal error before the first iteration (no archive, manifest
\* missing or invalid, rejected configuration, failed or insufficient
\* balance check, archive path not a file) leaves the run without an
\* appended event, an anchoring call or a delivery call.
C9_EarlyAbortNoEffects ==
  (\/ abortedIn \in {"locate", "parse", "balance", "validate"}
   \/ insufficient
   \/ promptError # "none") => NoEffects

\* the archive path stopped being a file after the balance was checked
C9_Witness ==
  /\ abortedIn = "validate" /\ error = "Path is not a file"
  /\ balanceQueries = 1 /\ pc = "done"

\* a count within 1..50
CountInRange(c) == ~c.nan /\ 2 <= c.v /\ c.v <= 2 * MAX_TRANSFERS

\* C10: the count the configuration hands on is within 1..50: a count
\* below 1, above 50 or not a number never leaves the prompt, so none
\* reaches the balance query.
C10_CountBounded ==
  /\ relay # "unset" => CountInRange(transferCount)
  /\ balanceQueries > 0 => CountInRange(transferCount)

\* C11: a chain.json that cannot be parsed is fatal: nothing is
\* appended, anchored or delivered, and the run ends in an error.
C11_MalformedFatal ==
  archive.chain.kind = "malformed" =>
    /\ NoEffects
    /\ pc \notin {"locate", "parse"} => outcome = "rejected"

C13_VolatileEntriesWritten ==
  \A k \in 1..Len(sendCalls) :
    LET p == sendCalls[k] IN
    /\ p.chain.kind = "chain"
    /\ "timestamp.txt" \in DOMAIN p.files
    /\ \A n \in DOMAIN archive.files :
         n \in DOMAIN p.files /\ p.files[n] = archive.files[n]
    /\ DOMAIN p.files \subseteq (DOMAIN archive.files \cup {"timestamp.txt"})

\* C14: the thumbnail extractMetadata returns, and the one attached to
\* every delivered message, is null or at most 256 KiB long.
C14_ThumbnailBudget ==
  /\ thumbnail.size <= THUMBNAIL_LIMIT
  /\ \A k \in 1..Len(sendCalls) : sendCalls[k].thumbnail.size <= THUMBNAIL_LIMIT

\* an encoder call of this run rejected
EncodeRejected == \E j \in 1..Len(encoded) : ~encoded[j].ok

\* C15: when an encoder call rejects, extractMetadata still returns, with a
\* null thumbnail and the title, description, keywords and existing chain
\* the archive gives without regard to its thumbnail; the run does not end
\* in the parse phase and every message it sends carries no thumbnail.
C15_ThumbnailErrorsRecoverable ==
  EncodeRejected =>
    /\ thumbnail = NoThumbnail
    /\ metadata = Metadata(archive.pkg)
    /\ existingChain = ParseChainJson(archive.chain)
    /\ pc # "parse" /\ abortedIn # "parse"
    /\ \A k \in 1..Len(sendCalls) : sendCalls[k].thumbnail = NoThumbnail

\* the second encoder call rejected after an oversize first buffer, and the
\* run went on to deliver every transfer
C15_Witness ==
  /\ Len(encoded) = 2 /\ encoded[1].ok /\ ~encoded[2].ok
  /\ pc = "done" /\ allDone /\ sendCalls # <<>>

\* C16: an archive whose descriptor entry is "Package.json" (valid JSON),
\* read from an unchanged directory, passes extractMetadata with the
\* metadata parsed from that entry.
C16_CaseInsensitiveManifest ==
  (/\ archive.manifest = "Package.json" /\ archive.manifestValid
   /\ zips > 0 /\ zipKind = "file" /\ ~fsChanged
   /\ pc \notin {"locate", "parse"}) =>
    /\ abortedIn # "parse"
    /\ metadata = Metadata(archive.pkg)

\* C17: once the archive was looked for (in a directory not changed
\* since), the run ended there with an error exactly when the directory
\* holds no zip or more than one.
C17_LocateNeedsExactlyOne ==
  (pc # "locate" /\ ~fsChanged) => ((abortedIn = "locate") <=> (zips # 1))

\* the entries of a package that are files, not named chain.json and no
\* dotfiles (by the name of the entry itself, whatever directory it is in)
NonVolatile(entries) ==
  {e \in Range(entries) :
     /\ ~e.dir
     /\ Basename(e.path) # "chain.json"
     /\ ~StartsWithDot(Basename(e.path))}

\* the same entries as a function hands them on
Handed(fn, e) == IF fn = "package" THEN ZipEntry(e) ELSE ImportFile(e)

\* C18: with the default exclusions, the files a CID function hands on
\* (names and bytes) are exactly the package's file entries that are not
\* named chain.json and are no dotfiles.
C18_CidInputExcludesVolatile ==
  (cidPc \notin {"idle", "collect"} /\ excludePatterns \subseteq DefaultPatterns) =>
    Range(cidFiles) = {Handed(cidFn, e) : e \in NonVolatile(cidInput)}

\* the same entries in another iteration order
PermutationsOf(entries) ==
  {[j \in DOMAIN entries |-> entries[f[j]]] : f \in Permutations(DOMAIN entries)}

\* C19: the sequence of files calculateZipCID and calculateDirectoryCID
\* hand to the importer is the same for every iteration order of the
\* package's entries.
C19_ImporterInputOrderIndependent ==
  (cidFn \in {"zip", "dir"} /\ cidPc \notin {"idle", "collect"}) =>
    \A q \in PermutationsOf(cidInput) :
      CidFilesOf(cidFn, q, excludePatterns) = cidFiles

\* the entries that remain after excluding directories, chain.json,
\* dotfiles and what the caller's own patterns match
Remaining(entries, patterns) ==
  {e \in NonVolatile(entries) :
     \A pat \in patterns \ DefaultPatterns : ~PatternExcludes(e.path, FALSE, pat)}

C21_FallbackOnce ==
  cidFn = "zip" =>
    LET n == Len(importerCalls) IN
    /\ n <= 2
    /\ n >= 1 => importerCalls[1].config =
                   [chunker |-> "size-262144", rawLeaves |-> "true", cidVersion |-> "1"]
    /\ n = 2 => /\ importerCalls[1].outcome = "throws"
                /\ importerCalls[2].config =
                     [chunker |-> "default", rawLeaves |-> "default", cidVersion |-> "default"]
    /\ (n >= 1 /\ importerCalls[1].outcome = "throws") =>
         (cidPc = "fallback" \/ n = 2)
    /\ (n >= 1 /\ cidPc = "done") =>
         /\ directoryCid.kind = (IF importerCalls[n].outcome = "directory" THEN "cid" ELSE "error")
         /\ importerCalls[1].outcome = "directory" => directoryCid = CidOf("first")

\* both importer runs threw and the call ended in an error
C21_Witness ==
  /\ cidFn = "zip" /\ Len(importerCalls) = 2
  /\ importerCalls[2].outcome = "throws"
  /\ cidPc = "done" /\ directoryCid.kind = "error"

\* C22: computing the package CID in a transfer sends nothing to a remote
\* service and cannot fail on one.
C22_CidComputedLocally ==
  /\ \A k \in 1..Len(cidCalls) : cidCalls[k].addedTo = "none"
  /\ error # "ipfs.add failed"

\* C24 (as stated): in every iteration the event is appended before the
\* CID is computed, the anchoring call comes before the repackaging, and
\* the delivery call comes last, after a successful anchoring.
C24_ExtendBeforeCid ==
  /\ Range(Iters(cidCalls)) \subseteq Range(Iters(appended))
  /\ Range(Iters(anchorCalls)) \subseteq Range(Iters(cidCalls))
  /\ Range(repackaged) \subseteq Range(anchorTxs)
  /\ Range(Iters(sendCalls)) \subseteq Range(repackaged)

\* C24 (amended): in every iteration the CID is computed first, on the
\* chain as it was loaded or created, then the event is appended, then the
\* anchoring call is made, then the package is repackaged, and the
\* delivery call comes last, after a successful anchoring.
C24_CidBeforeExtend ==
  /\ Range(Iters(appended)) \subseteq Range(Iters(cidCalls))
  /\ \A k \in 1..Len(cidCalls) : cidCalls[k].events = Len(existingChain.events)
  /\ pc = "addEvent" =>
       /\ (i + 1) \in Range(Iters(cidCalls))
       /\ (i + 1) \notin Range(Iters(appended))
  /\ Range(Iters(anchorCalls)) \subseteq Range(Iters(appended))
  /\ Range(repackaged) \subseteq Range(anchorTxs)
  /\ Range(Iters(sendCalls)) \subseteq Range(repackaged)

\* the CID of the second iteration is computed and its event not yet appended
C24_Witness ==
  /\ pc = "addEvent" /\ i = 1
  /\ Len(cidCalls) = 2 /\ Len(appended) = 1 /\ Len(sendCalls) = 1

\* the relay delivery of iteration n was made and succeeded
DeliveredIn(n) ==
  \E k \in 1..Len(sendCalls) : sendCalls[k].iter = n /\ sendCalls[k].ok

\* C25: every iteration reported completed had a successful relay
\* delivery, and the final report is made only when every iteration of the
\* run had one.
C25_CompletedMeansDelivered ==
  /\ \A n \in Range(completed) : DeliveredIn(n)
  /\ allDone => \A n \in 1..i : DeliveredIn(n)

\* an empty line was typed at the relay question and both transfers of the
\* run are reported completed
C25_Witness ==
  /\ relay = RELAY_URL /\ allDone
  /\ Len(completed) = 2 /\ DeliveredIn(1) /\ DeliveredIn(2)

\* C26: the number of iterations a finished run executed is the count the
\* balance requirement was computed from (counts are in halves), and is at
\* most 50.
C26_IterationsEqualCount ==
  allDone =>
    /\ 2 * Len(completed) = transferCount.v
    /\ Len(completed) <= MAX_TRANSFERS

\* C27: a balance answer that is not a number stops the run at the balance
\* check: no iteration starts and nothing is appended, anchored or delivered.
C27_NaNBalanceStops ==
  (balanceQueries > 0 /\ balance.nan /\ pc # "balance") =>
    /\ pc = "done"
    /\ cidCalls = <<>>
    /\ NoEffects

\* C28: calculatePackageCID includes an entry exactly when
\* shouldExclude(name, ["chain.json", ".*"]), as calculateZipCID calls it,
\* does not exclude it: the entries it puts into the new zip are those
\* shouldExclude lets through.
C28_FiltersAgree ==
  (cidFn = "package" /\ cidPc \notin {"idle", "collect"}) =>
    Range(cidFiles) =
      {ZipEntry(e) : e \in {x \in Range(cidInput) :
                              ~shouldExclude(x.path, x.dir, DefaultPatterns)}}

\* C23: with the prerequisites present and a project whose structure
\* check fails, build() rejects with the error of that check (the
\* Cargo.toml message when Cargo.toml is missing, the images message when
\* only the images are missing) and no build step ran: Cargo.toml is not
\* rewritten, no command was executed, no temporary directory and no
\* package was created.
C23_StructureErrorStopsBuild ==
  (/\ prerequisites = "ok"
   /\ (project.cargoToml = "absent" \/ project.layout # "ok" \/ project.images = 0)
   /\ bPc \notin {"idle", "check"}) =>
    /\ bPc = "done" /\ bOutcome = "rejected"
    /\ project.cargoToml = "absent" =>
         bError = "No Cargo.toml found in the current directory. Please run this command in an Ownable project directory."
    /\ (project.cargoToml # "absent" /\ project.layout = "ok") =>
         bError = "No images found in assets/images directory."
    /\ bSteps = <<>>
    /\ project.cargoToml # "rewritten"
    /\ tmpDirs = 0 /\ ~zipWritten

\* the second build of a project without images was turned down as well
C23_Witness ==
  /\ prerequisites = "ok" /\ project = [CompleteProject EXCEPT !.images = 0]
  /\ builds = 2 /\ bPc = "done" /\ bOutcome = "rejected"
  /\ bError = "No images found in assets/images directory."

\* C29: whenever buildWasm has returned successfully in a run, build/schema
\* holds the five required schema files and every file in it is valid JSON.
C29_SchemaCompleteOnSuccess ==
  (\E k \in 1..Len(bSteps) : bSteps[k] = "buildWasm returned") =>
    /\ schemaDir.exists
    /\ REQUIRED_SCHEMA_FILES \subseteq schemaDir.files
    /\ schemaDir.valid

\* C30: when build() has finished, resolved or rejected, no temporary
\* directory is left.
C30_TmpDirRemoved ==
  bPc = "done" => tmpDirs = 0

============================================================================
